---------------------------- MODULE Spec2Model ----------------------------
(*
  A model of tldr.py: the text normalizer (remove_disclaimers_and_mentions,
  strip_bullet_points, enforce_character_limit), the completion call
  (llama_run) and the two-pass pipeline (summarize_text_with_llama) with the
  part of main() that prints the summary.

  A Python str is a sequence of one-character strings.  The texts the checks
  range over are concatenations of a few tokens (single characters and the
  words the code looks for), so that every function runs character by
  character on inputs in which the interesting cases occur.
*)
EXTENDS Integers, Sequences, FiniteSets, TLC

VARIABLES
    \* ---- one run of main() from the call of summarize_text_with_llama on
    pc,                 \* position in summarize_text_with_llama / main
    max_chars,          \* args.characters
    calls,              \* number of subprocess.run invocations so far
    rcs,                \* result.returncode of each invocation, in order
    errs,               \* result.stderr of each invocation, in order
    generated,          \* tokens the completion service has produced so far
    first_pass,         \* local first_pass
    pass_one_cleaned,   \* local pass_one_cleaned
    has_bullets,        \* truthiness of local has_bullets
    second_pass,        \* local second_pass
    final_text,         \* local final_text
    summary,            \* main's local summary: << >> until assigned, then
                        \* << the returned text >>
    exit_code,          \* process exit status, -1 while running
    printed,            \* TRUE once main() printed the summary
    \* ---- the normalizer functions applied to an arbitrary text
    n_ops,              \* the functions applied so far, in order
    n_prev,             \* the argument of the last application
    n_cur,              \* the current text (the last result)
    n_budget            \* the max_chars of the last enforce_character_limit

vars == << pc, max_chars, calls, rcs, errs, generated, first_pass,
           pass_one_cleaned, has_bullets, second_pass, final_text, summary,
           exit_code, printed, n_ops, n_prev, n_cur, n_budget >>

pipeVars == << pc, max_chars, calls, rcs, errs, generated, first_pass,
               pass_one_cleaned, has_bullets, second_pass, final_text,
               summary, exit_code, printed >>

normVars == << n_ops, n_prev, n_cur, n_budget >>

-----------------------------------------------------------------------------
(* Bounds *)

\* tokens the completion service produces in one run, both calls together
MaxOut == 3
\* tokens of a text handed to a normalizer function
MaxTok == 3
\* budgets handed to enforce_character_limit range over -MaxBudget..MaxBudget
MaxBudget == 3

DEFAULT_MAX_CHARS == 500

-----------------------------------------------------------------------------
(* Characters and Python's str methods *)

\* what str.strip() and the regex class \s take for whitespace
IsSpace(c) == c \in {" ", "\n", "\t"}

\* the regex class \d
IsDigit(c) == c \in {"0", "1", "2", "3", "4", "5", "6", "7", "8", "9"}

\* str.lower() on one character
Lower(c) ==
    CASE c = "T" -> "t"
      [] c = "R" -> "r"
      [] c = "D" -> "d"
      [] c = "A" -> "a"
      [] c = "X" -> "x"
      [] OTHER   -> c

\* str.lower()
LowerStr(s) == [i \in 1..Len(s) |-> Lower(s[i])]

Min(a, b) == IF a <= b THEN a ELSE b
Max(a, b) == IF a >= b THEN a ELSE b

\* s[n:] for n >= 0
Drop(s, n) == SubSeq(s, n + 1, Len(s))

\* s[:m], Python's slice: a negative m counts from the end
SliceTo(s, m) ==
    IF m >= 0 THEN SubSeq(s, 1, Min(m, Len(s)))
              ELSE SubSeq(s, 1, Max(0, Len(s) + m))

RECURSIVE LStrip(_)
LStrip(s) ==
    IF s # << >> /\ IsSpace(Head(s)) THEN LStrip(Tail(s)) ELSE s

\* str.rstrip()
RECURSIVE RStrip(_)
RStrip(s) ==
    IF s # << >> /\ IsSpace(s[Len(s)])
    THEN RStrip(SubSeq(s, 1, Len(s) - 1))
    ELSE s

\* str.strip()
Strip(s) == RStrip(LStrip(s))

\* str.endswith
EndsWith(s, c) == s # << >> /\ s[Len(s)] = c

\* str.startswith for a sequence
StartsWith(s, p) == Len(s) >= Len(p) /\ SubSeq(s, 1, Len(p)) = p

\* the operator 'in' on two strings
Contains(s, sub) ==
    \E i \in 0..(Len(s) - Len(sub)) : SubSeq(s, i + 1, i + Len(sub)) = sub

\* str.splitlines(): a line break ends a line, and a final line break opens
\* no empty last line
RECURSIVE SplitFrom(_, _, _)
SplitFrom(s, cur, acc) ==
    IF s = << >>
    THEN IF cur = << >> THEN acc ELSE Append(acc, cur)
    ELSE IF Head(s) = "\n"
         THEN SplitFrom(Tail(s), << >>, Append(acc, cur))
         ELSE SplitFrom(Tail(s), Append(cur, Head(s)), acc)

SplitLines(s) == SplitFrom(s, << >>, << >>)

\* " ".join(lines)
RECURSIVE JoinSpace(_)
JoinSpace(lines) ==
    IF lines = << >> THEN << >>
    ELSE IF Len(lines) = 1 THEN lines[1]
    ELSE lines[1] \o << " " >> \o JoinSpace(Tail(lines))

\* re.sub(r"\s+", " ", s): every maximal run of whitespace becomes one space
RECURSIVE CollapseWs(_)
CollapseWs(s) ==
    IF s = << >> THEN << >>
    ELSE IF IsSpace(Head(s))
         THEN << " " >> \o CollapseWs(LStrip(s))
         ELSE << Head(s) >> \o CollapseWs(Tail(s))

\* the two closing statements of both cleaning functions
Flatten(lines) == Strip(CollapseWs(JoinSpace(lines)))

-----------------------------------------------------------------------------
(* remove_disclaimers_and_mentions *)

\* the list of the any() in remove_disclaimers_and_mentions
Keywords ==
    { << "r", "e", "w", "r", "i", "t", "e" >>,
      << "r", "e", "w", "r", "i", "t", "i", "n", "g" >>,
      << "d", "i", "s", "c", "l", "a", "i", "m", "e", "r" >>,
      << "t", "h", "e", " ", "a", "r", "t", "i", "c", "l", "e" >> }

\* a variant that forgets line.lower()
HasKeywordCaseSensitive(line) ==
    \E kw \in Keywords : Contains(Strip(line), kw)

\* lower_line = line.lower().strip(); any(kw in lower_line for kw in [...])
HasKeyword(line) ==
    \E kw \in Keywords : Contains(Strip(LowerStr(line)), kw)

\* the loop: the lines that hold no keyword, in order
RECURSIVE KeepLines(_)
KeepLines(lines) ==
    IF lines = << >> THEN << >>
    ELSE IF HasKeyword(Head(lines))
         THEN KeepLines(Tail(lines))
         ELSE << Head(lines) >> \o KeepLines(Tail(lines))

remove_disclaimers_and_mentions(text) == Flatten(KeepLines(SplitLines(text)))

-----------------------------------------------------------------------------
(* strip_bullet_points *)

\* length of the longest prefix of digits: what \d+ consumes
RECURSIVE DigitRun(_)
DigitRun(s) ==
    IF s # << >> /\ IsDigit(Head(s)) THEN 1 + DigitRun(Tail(s)) ELSE 0

\* 1 when position n+1 of s holds a whitespace character (the \s? of the
\* pattern, greedy), else 0
OptSpace(s, n) == IF Len(s) > n /\ IsSpace(s[n + 1]) THEN 1 ELSE 0

\* length matched at the start of s by  ^(\*|-|\d+\.)\s?  (0: no match)
AnchoredLen(s) ==
    IF s = << >> THEN 0
    ELSE IF s[1] \in {"*", "-"} THEN 1 + OptSpace(s, 1)
    ELSE LET k == DigitRun(s)
         IN  IF k > 0 /\ Len(s) > k /\ s[k + 1] = "."
             THEN k + 1 + OptSpace(s, k + 1)
             ELSE 0

\* length matched at the start of s by  \d+\)\s?  (0: no match)
ParenLen(s) ==
    LET k == DigitRun(s)
    IN  IF k > 0 /\ Len(s) > k /\ s[k + 1] = ")"
        THEN k + 1 + OptSpace(s, k + 1)
        ELSE 0

\* the backquote character (written out: a TLA+ string cannot hold it)
Backquote == "backquote"

\* the code-fence delimiter, three backquotes
Fence == << Backquote, Backquote, Backquote >>

\* re.sub past position 0 of the line: ^ matches no more, so only the
\* alternative \d+\)\s? of the pattern can match; each match is deleted
RECURSIVE SubRest(_)
SubRest(s) ==
    IF s = << >> THEN << >>
    ELSE IF ParenLen(s) > 0 THEN SubRest(Drop(s, ParenLen(s)))
    ELSE << Head(s) >> \o SubRest(Tail(s))

\* re.sub(bullet_pattern, "", line) with
\* bullet_pattern = ^(\*|-|\d+\.)\s?|\d+\)\s?|^FENCE
\* the alternatives are tried in order at position 0, and re.sub goes on to
\* delete every later match
ReSubBullet(line) ==
    IF line = << >> THEN << >>
    ELSE IF AnchoredLen(line) > 0 THEN SubRest(Drop(line, AnchoredLen(line)))
    ELSE IF ParenLen(line) > 0 THEN SubRest(Drop(line, ParenLen(line)))
    ELSE IF StartsWith(line, Fence) THEN SubRest(Drop(line, 3))
    ELSE << Head(line) >> \o SubRest(Tail(line))

\* the loop: new_line = re.sub(bullet_pattern, "", line.strip()), kept when
\* not empty
RECURSIVE CleanLines(_)
CleanLines(lines) ==
    IF lines = << >> THEN << >>
    ELSE LET new_line == ReSubBullet(Strip(Head(lines)))
         IN  IF new_line # << >>
             THEN << new_line >> \o CleanLines(Tail(lines))
             ELSE CleanLines(Tail(lines))

strip_bullet_points(text) == Flatten(CleanLines(SplitLines(text)))

-----------------------------------------------------------------------------
(* enforce_character_limit *)

\* the text cut to max_chars (here: limit), closed by a period
Truncated(text, limit) ==
    LET truncated == RStrip(SliceTo(text, limit))
    IN  IF ~EndsWith(truncated, ".") THEN Append(truncated, ".")
        ELSE truncated

\* a variant whose test is len(text) < max_chars
enforce_character_limit_strict(text, limit) ==
    IF Len(text) < limit THEN text ELSE Truncated(text, limit)

enforce_character_limit(text, limit) ==
    IF Len(text) <= limit THEN text ELSE Truncated(text, limit)

-----------------------------------------------------------------------------
(* summarize_text_with_llama: the detection of line 146 *)

\* re.search(r"(\*|-|\d+\.)", s) finds a match: scanning from the left, an
\* asterisk, a hyphen, or a run of digits that a period follows
RECURSIVE SearchBullet(_)
SearchBullet(s) ==
    IF s = << >> THEN FALSE
    ELSE IF Head(s) \in {"*", "-"} THEN TRUE
    ELSE IF DigitRun(s) > 0 /\ Len(s) > DigitRun(s) /\ s[DigitRun(s) + 1] = "."
         THEN TRUE
    ELSE SearchBullet(Tail(s))

\* a variant whose pattern forgets the enumerations: (\*|-)
SearchBulletNoDigits(s) == \E i \in 1..Len(s) : s[i] \in {"*", "-"}

\* has_bullets = re.search(...)
DetectBullets(s) == SearchBullet(s)

-----------------------------------------------------------------------------
(* llama_run *)

\* a variant that also takes output on the error channel for a failure
LlamaRunFailsOnStderr(returncode, stderr) == returncode # 0 \/ stderr # << >>

\* a variant that never takes the call to have failed
LlamaRunNeverFails(returncode, stderr) == FALSE

\* if result.returncode != 0: print(...); sys.exit(1)
LlamaRunFails(returncode, stderr) == returncode # 0

\* return result.stdout.strip()
LlamaRunResult(stdout) == Strip(stdout)

-----------------------------------------------------------------------------
(* The texts the checks range over *)

\* all concatenations of at most n tokens of T
RECURSIVE Concats(_, _)
Concats(T, n) ==
    IF n = 0 THEN { << >> }
    ELSE LET shorter == Concats(T, n - 1)
         IN  shorter \cup { s \o t : s \in shorter, t \in T }

\* tokens of the texts handed to the normalizer functions
NormTokens ==
    { << "*", " " >>, << "-" >>, << "1" >>, << "." >>, << ")" >>, Fence,
      << " " >>, << "\n" >>, << "x" >>,
      << "T", "h", "e", " ", "a", "r", "t", "i", "c", "l", "e" >>,
      << "r", "e", "w", "r", "i", "t", "e" >>,
      << "r", "e", "w", "r", "i", "t", "i", "n", "g" >>,
      << "D", "i", "s", "c", "l", "a", "i", "m", "e", "r" >> }

NormTexts == Concats(NormTokens, MaxTok)

Budgets == (0 - MaxBudget)..MaxBudget

\* tokens of what the model process writes to its standard output
OutTokens ==
    { << "-", " " >>, << "1", "." >>, << "x" >>, << "\n" >>,
      << "t", "h", "e" >>, << "a", "r", "t", "i", "c", "l", "e" >>,
      << "r", "e", "w", "r", "i", "t", "e" >> }

\* the outputs of n tokens exactly
RECURSIVE OutputsOf(_)
OutputsOf(n) ==
    IF n = 0 THEN { << >> }
    ELSE { s \o t : s \in OutputsOf(n - 1), t \in OutTokens }

\* exit statuses of the model process, and what it may leave on stderr
ReturnCodes == {0, 1}
StderrTexts == { << >>, << "e" >> }

\* values of --characters
PipelineBudgets == {1, 3, DEFAULT_MAX_CHARS}

-----------------------------------------------------------------------------
(* One run of main(), from the call of summarize_text_with_llama on *)

NormIdle ==
    /\ n_ops = << >>
    /\ n_prev = << >>
    /\ n_cur = << >>
    /\ n_budget = 0

Init ==
    /\ pc = "pass_one"
    /\ max_chars \in PipelineBudgets
    /\ calls = 0
    /\ rcs = << >>
    /\ errs = << >>
    /\ generated = 0
    /\ first_pass = << >>
    /\ pass_one_cleaned = << >>
    /\ has_bullets = FALSE
    /\ second_pass = << >>
    /\ final_text = << >>
    /\ summary = << >>
    /\ exit_code = -1
    /\ printed = FALSE
    /\ NormIdle

\* subprocess.run(["ollama", "run", model_name], ...): one more invocation,
\* which ends with a return code and whatever it wrote to stderr
Invoke(returncode, stderr) ==
    /\ calls' = calls + 1
    /\ rcs' = Append(rcs, returncode)
    /\ errs' = Append(errs, stderr)

\* sys.exit(1) in llama_run: nothing catches SystemExit on the way out
ExitFailure ==
    /\ pc' = "exited"
    /\ exit_code' = 1

\* first_pass = pass_one_summary(text, max_chars, model_name)
PassOne ==
    /\ pc = "pass_one"
    /\ \E returncode \in ReturnCodes, stderr \in StderrTexts,
          n \in 0..(MaxOut - generated) :
         \E stdout \in OutputsOf(n) :
            /\ Invoke(returncode, stderr)
            /\ IF LlamaRunFails(returncode, stderr)
               THEN /\ ExitFailure
                    /\ UNCHANGED << generated, first_pass >>
               ELSE /\ first_pass' = LlamaRunResult(stdout)
                    /\ generated' = generated + n
                    /\ pc' = "detect"
                    /\ UNCHANGED exit_code
    /\ UNCHANGED << max_chars, pass_one_cleaned, has_bullets, second_pass,
                    final_text, summary, printed >>
    /\ UNCHANGED normVars

\* pass_one_cleaned = remove_disclaimers_and_mentions(first_pass)
\* has_bullets = re.search(...); if has_bullets: ... else: ...
Detect ==
    /\ pc = "detect"
    /\ pass_one_cleaned' = remove_disclaimers_and_mentions(first_pass)
    /\ has_bullets' = DetectBullets(pass_one_cleaned')
    /\ pc' = IF has_bullets' THEN "pass_two" ELSE "no_rewrite"
    /\ UNCHANGED << max_chars, calls, rcs, errs, generated, first_pass,
                    second_pass, final_text, summary, exit_code, printed >>
    /\ UNCHANGED normVars

\* second_pass = pass_two_rewrite(pass_one_cleaned, max_chars, model_name)
\* second_pass_cleaned = remove_disclaimers_and_mentions(second_pass)
\* final_text = strip_bullet_points(second_pass_cleaned)
PassTwo ==
    /\ pc = "pass_two"
    /\ \E returncode \in ReturnCodes, stderr \in StderrTexts,
          n \in 0..(MaxOut - generated) :
         \E stdout \in OutputsOf(n) :
            /\ Invoke(returncode, stderr)
            /\ IF LlamaRunFails(returncode, stderr)
               THEN /\ ExitFailure
                    /\ UNCHANGED << generated, second_pass, final_text >>
               ELSE /\ second_pass' = LlamaRunResult(stdout)
                    /\ final_text' = strip_bullet_points(
                           remove_disclaimers_and_mentions(second_pass'))
                    /\ generated' = generated + n
                    /\ pc' = "enforce"
                    /\ UNCHANGED exit_code
    /\ UNCHANGED << max_chars, first_pass, pass_one_cleaned, has_bullets,
                    summary, printed >>
    /\ UNCHANGED normVars

\* final_text = strip_bullet_points(pass_one_cleaned)
NoRewrite ==
    /\ pc = "no_rewrite"
    /\ final_text' = strip_bullet_points(pass_one_cleaned)
    /\ pc' = "enforce"
    /\ UNCHANGED << max_chars, calls, rcs, errs, generated, first_pass,
                    pass_one_cleaned, has_bullets, second_pass, summary,
                    exit_code, printed >>
    /\ UNCHANGED normVars

\* final_text = enforce_character_limit(final_text, max_chars)
\* return final_text, which main() binds to summary
Enforce ==
    /\ pc = "enforce"
    /\ final_text' = enforce_character_limit(final_text, max_chars)
    /\ summary' = << final_text' >>
    /\ pc' = "print"
    /\ UNCHANGED << max_chars, calls, rcs, errs, generated, first_pass,
                    pass_one_cleaned, has_bullets, second_pass, exit_code,
                    printed >>
    /\ UNCHANGED normVars

\* the three print() of main(), after which the process ends normally
PrintSummary ==
    /\ pc = "print"
    /\ printed' = TRUE
    /\ exit_code' = 0
    /\ pc' = "exited"
    /\ UNCHANGED << max_chars, calls, rcs, errs, generated, first_pass,
                    pass_one_cleaned, has_bullets, second_pass, final_text,
                    summary >>
    /\ UNCHANGED normVars

Next ==
    \/ PassOne
    \/ Detect
    \/ PassTwo
    \/ NoRewrite
    \/ Enforce
    \/ PrintSummary

Spec == Init /\ [][Next]_vars

-----------------------------------------------------------------------------
(* The normalizer functions, each applied to an arbitrary text *)

PipelineIdle ==
    /\ pc = "idle"
    /\ max_chars = DEFAULT_MAX_CHARS
    /\ calls = 0
    /\ rcs = << >>
    /\ errs = << >>
    /\ generated = 0
    /\ first_pass = << >>
    /\ pass_one_cleaned = << >>
    /\ has_bullets = FALSE
    /\ second_pass = << >>
    /\ final_text = << >>
    /\ summary = << >>
    /\ exit_code = -1
    /\ printed = FALSE

NormInit ==
    /\ n_ops = << >>
    /\ n_prev = << >>
    /\ n_cur \in NormTexts
    /\ n_budget = 0
    /\ PipelineIdle

\* n_cur = remove_disclaimers_and_mentions(n_cur)
ApplyRemove ==
    /\ n_ops = << >>
    /\ n_ops' = Append(n_ops, "remove")
    /\ n_prev' = n_cur
    /\ n_cur' = remove_disclaimers_and_mentions(n_cur)
    /\ UNCHANGED n_budget
    /\ UNCHANGED pipeVars

\* n_cur = strip_bullet_points(n_cur), on a text and again on its result
ApplyStrip ==
    /\ n_ops \in { << >>, << "strip" >> }
    /\ n_ops' = Append(n_ops, "strip")
    /\ n_prev' = n_cur
    /\ n_cur' = strip_bullet_points(n_cur)
    /\ UNCHANGED n_budget
    /\ UNCHANGED pipeVars

\* n_cur = enforce_character_limit(n_cur, limit)
ApplyEnforce ==
    /\ n_ops = << >>
    /\ \E limit \in Budgets :
          /\ n_budget' = limit
          /\ n_cur' = enforce_character_limit(n_cur, limit)
    /\ n_ops' = Append(n_ops, "enforce")
    /\ n_prev' = n_cur
    /\ UNCHANGED pipeVars

NormNext ==
    \/ ApplyRemove
    \/ ApplyStrip
    \/ ApplyEnforce

SpecNorm == NormInit /\ [][NormNext]_vars

-----------------------------------------------------------------------------
(* Vocabulary of the properties *)

\* an asterisk, a hyphen, or a digit that a period follows, anywhere in s
MarkerAnywhere(s) ==
    \E i \in 1..Len(s) :
        \/ s[i] \in {"*", "-"}
        \/ IsDigit(s[i]) /\ i < Len(s) /\ s[i + 1] = "."

\* s holds one of the four marker substrings, compared case-insensitively
HoldsMarkerWord(s) == \E kw \in Keywords : Contains(LowerStr(s), kw)

\* s begins with a bullet, enumeration or code-fence marker
BeginsWithMarker(s) ==
    /\ s # << >>
    /\ \/ s[1] \in {"*", "-"}
       \/ LET k == DigitRun(s)
          IN  k > 0 /\ Len(s) > k /\ s[k + 1] \in {".", ")"}
       \/ StartsWith(s, Fence)

\* the line without its leading marker, when it begins with one: the marker
\* and at most one space after an asterisk, a hyphen, digits and a period or
\* digits and a close-paren; the three backquotes of a code fence
WithoutLeadingMarker(line) ==
    IF line = << >> THEN line
    ELSE IF line[1] \in {"*", "-"} THEN Drop(line, 1 + OptSpace(line, 1))
    ELSE LET k == DigitRun(line)
         IN  IF k > 0 /\ Len(line) > k /\ line[k + 1] \in {".", ")"}
             THEN Drop(line, k + 1 + OptSpace(line, k + 1))
             ELSE IF StartsWith(line, Fence) THEN Drop(line, 3)
             ELSE line

\* every line trimmed and relieved of one leading marker, the empty ones
\* dropped
RECURSIVE LeadingMarkersOff(_)
LeadingMarkersOff(lines) ==
    IF lines = << >> THEN << >>
    ELSE LET l == WithoutLeadingMarker(Strip(Head(lines)))
         IN  IF l # << >> THEN << l >> \o LeadingMarkersOff(Tail(lines))
             ELSE LeadingMarkersOff(Tail(lines))

\* the i-th completion call failed and the run was aborted there: it is the
\* last call made, the process has ended with a non-zero status, and main()
\* has neither received nor printed a summary
AbortedAt(i) ==
    /\ i = Len(rcs)
    /\ calls = i
    /\ pc = "exited"
    /\ exit_code \notin {0, -1}
    /\ summary = << >>
    /\ ~printed

\* the run is past the decision on the second pass
Decided == pc \in {"enforce", "print", "exited"} /\ Len(rcs) >= 1 /\ rcs[1] = 0

-----------------------------------------------------------------------------
(* Properties of the pipeline (specification Spec) *)

C4_FailureAborts ==
    /\ \A i \in 1..Len(rcs) : rcs[i] # 0 => AbortedAt(i)
    /\ (exit_code = 0 \/ printed \/ summary # << >>) =>
          \A i \in 1..Len(rcs) : rcs[i] = 0

\* the second call failed after a first pass that succeeded
C4_Witness ==
    /\ Len(rcs) = 2
    /\ rcs[1] = 0
    /\ rcs[2] # 0
    /\ pc = "exited"

\* C5: the returned value holds none of the four disclaimer marker
\* substrings, compared case-insensitively.
C5_NoMarkerWord == summary # << >> => ~HoldsMarkerWord(summary[1])

\* C6: the returned value never begins with a bullet, enumeration or
\* code-fence marker.
C6_NoLeadingMarker == summary # << >> => ~BeginsWithMarker(summary[1])

-----------------------------------------------------------------------------
(* Properties of the normalizer functions (specification SpecNorm) *)

\* C2: for every text and every budget b > 0 the result of
\* enforce_character_limit has length at most b + 1, and a text of length at
\* most b is returned unchanged.
C2_BudgetBound ==
    (n_ops = << "enforce" >> /\ n_budget > 0) =>
        /\ Len(n_cur) <= n_budget + 1
        /\ (Len(n_prev) <= n_budget => n_cur = n_prev)

\* a text as long as the budget exactly, and (in other states) a longer one
\* cut to the budget plus the period
C2_Witness ==
    /\ n_ops = << "enforce" >>
    /\ n_budget > 0
    /\ \/ Len(n_prev) = n_budget /\ ~EndsWith(n_prev, ".")
       \/ Len(n_prev) > n_budget /\ Len(n_cur) = n_budget + 1

\* C3: for a non-empty text and a budget <= 0 the slice kept is empty, so
\* the result has length at most 1.
C3_DegenerateBudget ==
    (n_ops = << "enforce" >> /\ n_budget <= 0 /\ n_prev # << >>) =>
        Len(n_cur) <= 1

\* C7: strip_bullet_points applied twice yields what one application yields.
C7_StripIdempotent == n_ops = << "strip", "strip" >> => n_cur = n_prev

\* C8: when the input has several lines and every line holds one of the four
\* marker substrings (case-insensitively), remove_disclaimers_and_mentions
\* returns the empty string.
C8_AllLinesDropped ==
    (/\ n_ops = << "remove" >>
     /\ Len(SplitLines(n_prev)) >= 2
     /\ \A i \in 1..Len(SplitLines(n_prev)) :
            HoldsMarkerWord(SplitLines(n_prev)[i]))
    => n_cur = << >>

\* two lines or more, each with a marker word, one of them capitalised
C8_Witness ==
    /\ n_ops = << "remove" >>
    /\ Len(SplitLines(n_prev)) >= 2
    /\ \A i \in 1..Len(SplitLines(n_prev)) :
           HoldsMarkerWord(SplitLines(n_prev)[i])
    /\ n_prev # LowerStr(n_prev)

\* C10: in every line strip_bullet_points removes at most one marker, at the
\* start of the trimmed line, and leaves every mid-line marker untouched.
C10_OnlyLeadingMarker ==
    n_ops = << "strip" >> =>
        n_cur = Flatten(LeadingMarkersOff(SplitLines(n_prev)))

=============================================================================
